---------------------------- MODULE Spec2Model ----------------------------
(***************************************************************************)
(* Perfect Pong (src/PerfectPong.py): the tick-driven simulation           *)
(* (Paddle.update, Ball.update, Ball.reset), the Game Session loop         *)
(* (PongGame.run) and the Menu/Mode Flow (main, MainMenu, OptionsMenu).    *)
(*                                                                         *)
(* Coordinates are the program's pixel values.  Every division the code    *)
(* performs (game_width / 2, 3 * game_width / 4, paddle_width / 2,         *)
(* speed * (ai_difficulty / 10.0)) is exact for the configurations used    *)
(* here, so the float values of the program are these integers.            *)
(***************************************************************************)
EXTENDS Integers, Sequences, FiniteSets, TLC

VARIABLES
    CONFIG,     \* the global configuration dict (the fields the code reads)
    state,      \* where main() is: "MainMenu", "Options", "InSession", "Exited"
    options,    \* OptionsMenu.options (pending values)
    selected,   \* OptionsMenu.selected
    changed,    \* local `changed` of OptionsMenu.adjust
    event,      \* the last event a menu handled (history)
    adjusted,   \* number of accepted option adjustments so far (capped)
    mode,       \* PongGame.mode
    running,    \* PongGame.running
    paused,     \* PongGame.paused
    scores,     \* PongGame.scores
    paddles,    \* PongGame.paddles
    ball,       \* PongGame.ball
    winner,     \* text shown by display_winner ("" while not shown)
    tick,       \* what the last loop iteration of run() did (history)
    finished,   \* how the session that last returned ended (history)
    call        \* the arguments of a single Paddle.update call (history)

vars == <<CONFIG, state, options, selected, changed, event, adjusted, mode,
          running, paused, scores, paddles, ball, winner, tick, finished,
          call>>

sessionVars == <<mode, running, paused, scores, paddles, ball, winner, tick>>
optionVars  == <<options, selected, changed>>
menuVars    == <<CONFIG, state, options, selected, changed, event, adjusted>>

-----------------------------------------------------------------------------
(* Bounds of the model *)

\* events drained by one pygame.event.get() of the session loop
MaxEvents == 2

\* accepted LEFT/RIGHT adjustments of the Options menu in one program run
MaxAdjusted == 1

-----------------------------------------------------------------------------
(* Program constants *)

PADDLE_SPEED == 10
BALL_SPEED == 4
TOP_PADDLE_Y == 20
BOTTOM_PADDLE_OFFSET == 40
MIN_OPTION == 1
MAX_AI_DIFFICULTY == 10
MAX_MAX_SCORE == 20

\* DEFAULT_CONFIG, lines 29-43 (fps, ai_enabled are never read by the
\* simulation; controls are the key names below)
DEFAULT_CONFIG ==
    [game_width |-> 800, game_height |-> 600,
     paddle_width |-> 100, paddle_height |-> 20,
     ball_radius |-> 10, ai_difficulty |-> 5, max_score |-> 10,
     controls |-> [player1 |-> <<"K_a", "K_d">>,
                   player2 |-> <<"K_LEFT", "K_RIGHT">>]]

\* the values stored in a config.json: a small arena with the default ball
\* radius and paddle height, and a short match
StoredConfig ==
    [game_width |-> 40, game_height |-> 120,
     paddle_width |-> 20, ai_difficulty |-> 5, max_score |-> 1]

\* update_config: every key missing from the loaded dict takes the default
update_config(default, loaded) ==
    [k \in DOMAIN default |->
        IF k \in DOMAIN loaded THEN loaded[k] ELSE default[k]]

\* load_config: the stored values merged over the defaults
load_config == update_config(DEFAULT_CONFIG, StoredConfig)

-----------------------------------------------------------------------------
(* Inputs *)

\* pygame events: "QUIT" is the window-close event, a key name is a KEYDOWN
SessionEvents == {"QUIT", "K_q", "K_p"}
MenuEvents    == {"QUIT", "K_1", "K_2", "K_3", "K_4", "K_q", "K_p"}

\* keys that can be held (pygame.key.get_pressed())
MoveKeys == {"K_a", "K_d", "K_LEFT", "K_RIGHT"}

\* batches of at most MaxEvents events
Batches == UNION {[1..n -> SessionEvents] : n \in 0..MaxEvents}

\* parity of pygame.time.get_ticks()
Parities == {0, 1}

None == "None"

\* no single call made: the session loop passes its own arguments
NoCall == [paddle |-> 0, keys |-> {}, ball |-> FALSE]

-----------------------------------------------------------------------------
(* Paddle *)

\* Paddle.__init__
Paddle(x, y, controls, ai, cfg) ==
    [x |-> x, y |-> y, width |-> cfg.paddle_width,
     height |-> cfg.paddle_height, speed |-> PADDLE_SPEED,
     controls |-> controls, ai |-> ai]

\* keys[k] for a bound key (a control of None is never read)
Held(keys, k) == k /= None /\ k \in keys

\* the AI branch of Paddle.update
AIMove(p, b, cfg) ==
    LET target == b.x - (p.width \div 2)
        diff   == target - p.x
        move   == (p.speed * cfg.ai_difficulty) \div 10
    IN  IF diff > move THEN [p EXCEPT !.x = p.x + move]
        ELSE IF diff < -move THEN [p EXCEPT !.x = p.x - move]
        ELSE [p EXCEPT !.x = target]

\* ManualMove with the two directions exchanged
ManualMove_reversed(p, keys, cfg) ==
    LET p1 == IF Held(keys, p.controls[1]) /\ p.x > 0
              THEN [p EXCEPT !.x = p.x + p.speed] ELSE p
    IN  IF Held(keys, p1.controls[2]) /\ p1.x + p1.width < cfg.game_width
        THEN [p1 EXCEPT !.x = p1.x - p1.speed] ELSE p1

\* ManualMove whose right check reads the position before the left move
ManualMove_stale(p, keys, cfg) ==
    LET p1 == IF Held(keys, p.controls[1]) /\ p.x > 0
              THEN [p EXCEPT !.x = p.x - p.speed] ELSE p
    IN  IF Held(keys, p1.controls[2]) /\ p.x + p.width < cfg.game_width
        THEN [p1 EXCEPT !.x = p1.x + p1.speed] ELSE p1

\* the manual branch of Paddle.update: left is checked before right, and the
\* right check reads the position the left move produced
ManualMove(p, keys, cfg) ==
    LET p1 == IF Held(keys, p.controls[1]) /\ p.x > 0
              THEN [p EXCEPT !.x = p.x - p.speed] ELSE p
    IN  IF Held(keys, p1.controls[2]) /\ p1.x + p1.width < cfg.game_width
        THEN [p1 EXCEPT !.x = p1.x + p1.speed] ELSE p1

\* Paddle.update(keys, ball); hasBall is the truth value of `ball`
Paddle_update(p, keys, hasBall, b, cfg) ==
    IF p.ai /\ hasBall THEN AIMove(p, b, cfg) ELSE ManualMove(p, keys, cfg)

-----------------------------------------------------------------------------
(* Ball *)

\* Ball.__init__
Ball(x, y, radius) ==
    [x |-> x, y |-> y, radius |-> radius,
     velocity_x |-> BALL_SPEED, velocity_y |-> BALL_SPEED]

\* the sign of Ball.reset computed as the clock's parity itself
Direction_parity(t) == t % 2

\* the sign chosen from one reading of pygame.time.get_ticks()
Direction(t) == IF t % 2 = 0 THEN -1 ELSE 1

\* Ball.reset that takes both signs from one reading of the clock
Ball_reset_one_reading(b, cfg, t1, t2) ==
    [b EXCEPT !.x = cfg.game_width \div 2,
              !.y = cfg.game_height \div 2,
              !.velocity_x = BALL_SPEED * Direction(t1),
              !.velocity_y = BALL_SPEED * Direction(t1)]

\* Ball.reset: t1 and t2 are the two readings of the clock
Ball_reset(b, cfg, t1, t2) ==
    [b EXCEPT !.x = cfg.game_width \div 2,
              !.y = cfg.game_height \div 2,
              !.velocity_x = BALL_SPEED * Direction(t1),
              !.velocity_y = BALL_SPEED * Direction(t2)]

\* the collision test without its vertical band: the paddle's column
Collides_column(b, p) ==
    /\ p.x < b.x
    /\ b.x < p.x + p.width

\* the paddle collision test of Ball.update
Collides(b, p) ==
    /\ b.y + b.radius > p.y
    /\ b.y - b.radius < p.y + p.height
    /\ p.x < b.x
    /\ b.x < p.x + p.width

\* one pass of the `for paddle in paddles` loop, from paddle i on
RECURSIVE PaddleCollisions(_, _, _)
PaddleCollisions(b, ps, i) ==
    IF i > Len(ps) THEN [ball |-> b, hits |-> <<>>]
    ELSE LET hit == Collides(b, ps[i])
             b1  == IF hit THEN [b EXCEPT !.velocity_y = -b.velocity_y] ELSE b
             r   == PaddleCollisions(b1, ps, i + 1)
         IN  [ball |-> r.ball, hits |-> <<hit>> \o r.hits]

\* Award with a point counted twice at the top boundary
Award_twice(sc, top, bot) ==
    IF top THEN [sc EXCEPT !.player2 = sc.player2 + 2]
    ELSE IF bot THEN [sc EXCEPT !.player1 = sc.player1 + 1]
    ELSE sc

\* Award with the two players exchanged
Award_swapped(sc, top, bot) ==
    IF top THEN [sc EXCEPT !.player1 = sc.player1 + 1]
    ELSE IF bot THEN [sc EXCEPT !.player2 = sc.player2 + 1]
    ELSE sc

\* the scoring branches of Ball.update: the top boundary awards player 2,
\* else the bottom boundary awards player 1
Award(sc, top, bot) ==
    IF top THEN [sc EXCEPT !.player2 = sc.player2 + 1]
    ELSE IF bot THEN [sc EXCEPT !.player1 = sc.player1 + 1]
    ELSE sc

\* Ball.update that bounces the ball off a scoring boundary instead of
\* resetting it
Ball_update_bounce(b, ps, sc, cfg, t1, t2) ==
    LET b1   == [b EXCEPT !.x = b.x + b.velocity_x, !.y = b.y + b.velocity_y]
        wall == b1.x - b1.radius < 0 \/ b1.x + b1.radius > cfg.game_width
        b2   == IF wall THEN [b1 EXCEPT !.velocity_x = -b1.velocity_x] ELSE b1
        top  == b2.y - b2.radius < 0
        bot  == ~top /\ b2.y + b2.radius > cfg.game_height
        sc1  == Award(sc, top, bot)
        b3   == IF top \/ bot THEN [b2 EXCEPT !.velocity_y = -b2.velocity_y]
                ELSE b2
        pc   == PaddleCollisions(b3, ps, 1)
    IN  [ball |-> pc.ball, scores |-> sc1, wall |-> wall,
         scorer |-> IF top THEN "player2" ELSE IF bot THEN "player1" ELSE None,
         resets |-> IF top \/ bot THEN 1 ELSE 0,
         hits |-> pc.hits]

\* Ball.update whose wall test reads the ball's centre, not its edge
Ball_update_centre(b, ps, sc, cfg, t1, t2) ==
    LET b1   == [b EXCEPT !.x = b.x + b.velocity_x, !.y = b.y + b.velocity_y]
        wall == b1.x < 0 \/ b1.x > cfg.game_width
        b2   == IF wall THEN [b1 EXCEPT !.velocity_x = -b1.velocity_x] ELSE b1
        top  == b2.y - b2.radius < 0
        bot  == ~top /\ b2.y + b2.radius > cfg.game_height
        sc1  == Award(sc, top, bot)
        b3   == IF top \/ bot THEN Ball_reset(b2, cfg, t1, t2) ELSE b2
        pc   == PaddleCollisions(b3, ps, 1)
    IN  [ball |-> pc.ball, scores |-> sc1, wall |-> wall,
         scorer |-> IF top THEN "player2" ELSE IF bot THEN "player1" ELSE None,
         resets |-> IF top \/ bot THEN 1 ELSE 0,
         hits |-> pc.hits]

\* Ball.update: the new ball and scores, with what happened on the way
Ball_update(b, ps, sc, cfg, t1, t2) ==
    LET b1   == [b EXCEPT !.x = b.x + b.velocity_x, !.y = b.y + b.velocity_y]
        wall == b1.x - b1.radius < 0 \/ b1.x + b1.radius > cfg.game_width
        b2   == IF wall THEN [b1 EXCEPT !.velocity_x = -b1.velocity_x] ELSE b1
        top  == b2.y - b2.radius < 0
        bot  == ~top /\ b2.y + b2.radius > cfg.game_height
        sc1  == Award(sc, top, bot)
        b3   == IF top \/ bot THEN Ball_reset(b2, cfg, t1, t2) ELSE b2
        pc   == PaddleCollisions(b3, ps, 1)
    IN  [ball |-> pc.ball, scores |-> sc1, wall |-> wall,
         scorer |-> IF top THEN "player2" ELSE IF bot THEN "player1" ELSE None,
         resets |-> IF top \/ bot THEN 1 ELSE 0,
         hits |-> pc.hits]

-----------------------------------------------------------------------------
(* Game Session *)

NoTick ==
    [updated |-> FALSE, quit |-> FALSE, scorer |-> None, resets |-> 0,
     wall |-> FALSE, hits |-> <<>>]

\* PongGame.init_game: the paddles of a mode
init_game(m, cfg) ==
    IF m = "single"
    THEN <<Paddle(cfg.game_width \div 2 - cfg.paddle_width \div 2,
                  cfg.game_height - BOTTOM_PADDLE_OFFSET,
                  <<"K_LEFT", "K_RIGHT">>, FALSE, cfg),
           Paddle(cfg.game_width \div 2 - cfg.paddle_width \div 2,
                  TOP_PADDLE_Y, <<None, None>>, TRUE, cfg)>>
    ELSE <<Paddle(cfg.game_width \div 4 - cfg.paddle_width \div 2,
                  cfg.game_height - BOTTOM_PADDLE_OFFSET,
                  cfg.controls.player1, FALSE, cfg),
           Paddle((3 * cfg.game_width) \div 4 - cfg.paddle_width \div 2,
                  TOP_PADDLE_Y, cfg.controls.player2, FALSE, cfg)>>

\* PongGame.__init__ that leaves the score tally and the paused flag as the
\* previous session left them
PongGame_keep(m) ==
    /\ mode' = m
    /\ running' = TRUE
    /\ UNCHANGED <<paused, scores>>
    /\ paddles' = init_game(m, CONFIG)
    /\ ball' = Ball(CONFIG.game_width \div 2, CONFIG.game_height \div 2,
                    CONFIG.ball_radius)
    /\ winner' = ""
    /\ tick' = NoTick
    /\ finished' = ""

\* PongGame.__init__: the fields of a new session
PongGame(m) ==
    /\ mode' = m
    /\ running' = TRUE
    /\ paused' = FALSE
    /\ scores' = [player1 |-> 0, player2 |-> 0]
    /\ paddles' = init_game(m, CONFIG)
    /\ ball' = Ball(CONFIG.game_width \div 2, CONFIG.game_height \div 2,
                    CONFIG.ball_radius)
    /\ winner' = ""
    /\ tick' = NoTick
    /\ finished' = ""

\* the finished session stays bound to `game` in main() until the next
\* PongGame(choice): the fields __init__ itself assigns (mode, running,
\* paused, scores) are kept as they are; the paddles and the ball, which
\* init_game rebuilds and nothing reads in between, are dropped
Finished ==
    /\ paddles' = <<>>
    /\ ball' = Ball(0, 0, 0)
    /\ tick' = NoTick
    /\ UNCHANGED <<mode, running, paused, scores, winner>>

\* handle_event whose pause toggle also sets the running flag
handle_event_resume(e, g) ==
    IF e = "QUIT" THEN [g EXCEPT !.running = FALSE]
    ELSE IF e = "K_q" THEN [g EXCEPT !.running = FALSE]
    ELSE IF e = "K_p" THEN [g EXCEPT !.paused = ~g.paused, !.running = TRUE]
    ELSE g

\* the body of the event loop of PongGame.handle_events, for one event
handle_event(e, g) ==
    IF e = "QUIT" THEN [g EXCEPT !.running = FALSE]
    ELSE IF e = "K_q" THEN [g EXCEPT !.running = FALSE]
    ELSE IF e = "K_p" THEN [g EXCEPT !.paused = ~g.paused]
    ELSE g

\* PongGame.handle_events over the drained batch
RECURSIVE handle_events(_, _)
handle_events(evs, g) ==
    IF evs = <<>> THEN g
    ELSE handle_events(Tail(evs), handle_event(Head(evs), g))

\* PongGame.update: every paddle is updated against the ball as it was at
\* the start of the tick, then the ball against the updated paddles
UpdatePaddles(ps, b, keys, cfg) ==
    [i \in 1..Len(ps) |-> Paddle_update(ps[i], keys, TRUE, b, cfg)]

PongGame_update(ps, b, sc, keys, cfg, t1, t2) ==
    LET ps1 == UpdatePaddles(ps, b, keys, cfg)
        bu  == Ball_update(b, ps1, sc, cfg, t1, t2)
    IN  [paddles |-> ps1, ball |-> bu.ball, scores |-> bu.scores,
         tick |-> [NoTick EXCEPT !.updated = TRUE, !.scorer = bu.scorer,
                           !.resets = bu.resets, !.wall = bu.wall,
                           !.hits = bu.hits]]

\* WinCondition with a strict comparison
WinCondition_strict(sc, cfg) ==
    sc.player1 > cfg.max_score \/ sc.player2 > cfg.max_score

\* WinCondition that tests player 1 only
WinCondition_player1(sc, cfg) ==
    sc.player1 >= cfg.max_score

\* the win condition of PongGame.run
WinCondition(sc, cfg) ==
    sc.player1 >= cfg.max_score \/ sc.player2 >= cfg.max_score

\* PongGame.display_winner: the name on the winner screen
display_winner(sc, cfg) ==
    IF sc.player1 >= cfg.max_score THEN "Player 1" ELSE "Player 2"

\* a batch that holds a quit input (the Q key or the window-close event)
HasQuit(evs) == \E i \in 1..Len(evs) : evs[i] \in {"QUIT", "K_q"}

\* the outcomes of handle_events over every batch that can be drained
EventOutcomes ==
    {[g |-> handle_events(evs, [running |-> running, paused |-> paused]),
      quit |-> HasQuit(evs)] : evs \in Batches}

\* an update that ignores the paused flag
ShouldUpdate_always(g) == TRUE

\* `if not self.paused` of PongGame.run
ShouldUpdate(g) == ~g.paused

\* the clock is read by Ball.reset alone: its parities are drawn on the ticks
\* that reset the ball
Scores(b, cfg) ==
    \/ b.y + b.velocity_y - b.radius < 0
    \/ b.y + b.velocity_y + b.radius > cfg.game_height

Clock(b, cfg) == IF Scores(b, cfg) THEN Parities ELSE {0}

\* the outcomes of PongGame.update over every key state and clock reading
UpdateOutcomes ==
    {PongGame_update(paddles, ball, scores, keys, CONFIG, t1, t2) :
        keys \in SUBSET MoveKeys,
        t1 \in Clock(ball, CONFIG), t2 \in Clock(ball, CONFIG)}

\* the session as handle_events left it when update() is skipped
Skipped ==
    [paddles |-> paddles, ball |-> ball, scores |-> scores,
     tick |-> [NoTick EXCEPT !.updated = FALSE]]

\* one iteration of the `while self.running` loop of PongGame.run:
\* handle_events, update unless paused, draw, the win check
run ==
    /\ state = "InSession"
    /\ running
    /\ \E o \in EventOutcomes :
        \E u \in (IF ShouldUpdate(o.g) THEN UpdateOutcomes ELSE {Skipped}) :
            LET won == WinCondition(u.scores, CONFIG)
            IN  /\ paused' = o.g.paused
                /\ paddles' = u.paddles
                /\ ball' = u.ball
                /\ scores' = u.scores
                /\ winner' = IF won THEN display_winner(u.scores, CONFIG)
                             ELSE winner
                /\ running' = IF won THEN FALSE ELSE o.g.running
                /\ tick' = [u.tick EXCEPT !.quit = o.quit]
    /\ UNCHANGED <<call, menuVars, mode, finished>>

\* PongGame.run returns once self.running is false; main() loops back to the
\* main menu
run_return ==
    /\ state = "InSession"
    /\ ~running
    /\ state' = "MainMenu"
    /\ finished' = IF WinCondition(scores, CONFIG) THEN "win" ELSE "quit"
    /\ Finished
    /\ UNCHANGED <<call, CONFIG, optionVars, event, adjusted>>

-----------------------------------------------------------------------------
(* Menu/Mode Flow *)

option_keys == <<"AI Difficulty", "Max Score">>

NoOptions == [k \in {"AI Difficulty", "Max Score"} |-> 0]

\* MainMenu.wait_for_input, for one event: the choice returned, or None when
\* the event is ignored and the menu keeps waiting
wait_for_input(e) ==
    IF e = "QUIT" THEN "quit"
    ELSE IF e = "K_1" THEN "single"
    ELSE IF e = "K_2" THEN "multi"
    ELSE IF e = "K_3" THEN "options"
    ELSE IF e = "K_4" \/ e = "K_q" THEN "quit"
    ELSE None

\* main(): choice == "quit"
main_quit(e) ==
    /\ state = "MainMenu"
    /\ wait_for_input(e) = "quit"
    /\ state' = "Exited"
    /\ event' = e
    /\ UNCHANGED <<call, CONFIG, optionVars, adjusted, sessionVars, finished>>

\* main(): choice == "options"; OptionsMenu.__init__
main_options(e) ==
    /\ state = "MainMenu"
    /\ wait_for_input(e) = "options"
    /\ state' = "Options"
    /\ options' = [k \in {"AI Difficulty", "Max Score"} |->
                     IF k = "AI Difficulty" THEN CONFIG.ai_difficulty
                     ELSE CONFIG.max_score]
    /\ selected' = 0
    /\ changed' = FALSE
    /\ event' = e
    /\ UNCHANGED <<call, CONFIG, adjusted, sessionVars, finished>>

\* main(): choice in ["single", "multi"]
main_game(e) ==
    /\ state = "MainMenu"
    /\ wait_for_input(e) \in {"single", "multi"}
    /\ state' = "InSession"
    /\ PongGame(wait_for_input(e))
    /\ event' = e
    /\ UNCHANGED <<call, CONFIG, optionVars, adjusted>>

\* OptionsMenu.adjust returns (the menu object is dropped)
LeaveOptions ==
    /\ state' = "MainMenu"
    /\ options' = NoOptions
    /\ selected' = 0
    /\ changed' = FALSE

\* OptionsMenu.adjust whose QUIT branch writes the pending values too
adjust_quit_saving ==
    /\ state = "Options"
    /\ CONFIG' = [CONFIG EXCEPT !.ai_difficulty = options["AI Difficulty"],
                                !.max_score = options["Max Score"]]
    /\ LeaveOptions
    /\ event' = "QUIT"
    /\ UNCHANGED <<call, adjusted, sessionVars, finished>>

\* OptionsMenu.adjust: QUIT
adjust_quit ==
    /\ state = "Options"
    /\ LeaveOptions
    /\ event' = "QUIT"
    /\ UNCHANGED <<call, CONFIG, adjusted, sessionVars, finished>>

\* OptionsMenu.adjust: K_ESCAPE writes the pending values to CONFIG
adjust_escape ==
    /\ state = "Options"
    /\ CONFIG' = [CONFIG EXCEPT !.ai_difficulty = options["AI Difficulty"],
                                !.max_score = options["Max Score"]]
    /\ LeaveOptions
    /\ event' = "K_ESCAPE"
    /\ UNCHANGED <<call, adjusted, sessionVars, finished>>

\* OptionsMenu.adjust: K_UP (d = -1) and K_DOWN (d = 1)
adjust_select(d) ==
    /\ state = "Options"
    /\ selected' = (selected + d) % Len(option_keys)
    /\ event' = IF d = -1 THEN "K_UP" ELSE "K_DOWN"
    /\ UNCHANGED <<call, CONFIG, state, options, changed, adjusted,
                   sessionVars, finished>>

\* UpperLimit with the two limits exchanged
UpperLimit_swapped(key) ==
    IF key = "AI Difficulty" THEN MAX_MAX_SCORE ELSE MAX_AI_DIFFICULTY

\* the upper limit the K_RIGHT branch tests for an option
UpperLimit(key) ==
    IF key = "AI Difficulty" THEN MAX_AI_DIFFICULTY ELSE MAX_MAX_SCORE

\* OptionsMenu.adjust: K_LEFT (d = -1) and K_RIGHT (d = 1)
adjust_value(d) ==
    /\ state = "Options"
    /\ adjusted < MaxAdjusted
    /\ LET key == option_keys[selected + 1]
           ok  == IF d = -1 THEN options[key] > MIN_OPTION
                  ELSE options[key] < UpperLimit(key)
       IN  /\ options' = IF ok THEN [options EXCEPT ![key] = options[key] + d]
                         ELSE options
           /\ changed' = (changed \/ ok)
           /\ adjusted' = IF ok THEN adjusted + 1 ELSE adjusted
    /\ event' = IF d = -1 THEN "K_LEFT" ELSE "K_RIGHT"
    /\ UNCHANGED <<call, CONFIG, state, selected, sessionVars, finished>>

-----------------------------------------------------------------------------
(* Specifications *)

\* the whole program, from the start of main()
Init ==
    /\ CONFIG = load_config
    /\ state = "MainMenu"
    /\ options = NoOptions
    /\ selected = 0
    /\ changed = FALSE
    /\ event = ""
    /\ adjusted = 0
    /\ mode = None
    /\ running = FALSE
    /\ paused = FALSE
    /\ scores = [player1 |-> 0, player2 |-> 0]
    /\ paddles = <<>>
    /\ ball = Ball(0, 0, 0)
    /\ winner = ""
    /\ tick = NoTick
    /\ finished = ""
    /\ call = NoCall

Next ==
    \/ \E e \in MenuEvents : main_quit(e)
    \/ \E e \in MenuEvents : main_options(e)
    \/ \E e \in MenuEvents : main_game(e)
    \/ adjust_quit
    \/ adjust_escape
    \/ \E d \in {-1, 1} : adjust_select(d)
    \/ \E d \in {-1, 1} : adjust_value(d)
    \/ run
    \/ run_return

Spec == Init /\ [][Next]_vars

\* one Game Session, from PongGame(mode) to the return of run()
InitSession ==
    /\ CONFIG = load_config
    /\ state = "InSession"
    /\ options = NoOptions
    /\ selected = 0
    /\ changed = FALSE
    /\ event \in {"K_1", "K_2"}
    /\ adjusted = 0
    /\ mode = wait_for_input(event)
    /\ running = TRUE
    /\ paused = FALSE
    /\ scores = [player1 |-> 0, player2 |-> 0]
    /\ paddles = init_game(mode, CONFIG)
    /\ ball = Ball(CONFIG.game_width \div 2, CONFIG.game_height \div 2,
                   CONFIG.ball_radius)
    /\ winner = ""
    /\ tick = NoTick
    /\ finished = ""
    /\ call = NoCall

NextSession ==
    \/ run
    \/ run_return

SpecSession == InitSession /\ [][NextSession]_vars

\* the Options menu over every stored difficulty and win threshold in range
InRangeConfigs ==
    {[load_config EXCEPT !.ai_difficulty = d, !.max_score = m] :
        d \in MIN_OPTION..MAX_AI_DIFFICULTY, m \in MIN_OPTION..MAX_MAX_SCORE}

InitOptions ==
    /\ CONFIG \in InRangeConfigs
    /\ state = "MainMenu"
    /\ options = NoOptions
    /\ selected = 0
    /\ changed = FALSE
    /\ event = ""
    /\ adjusted = 0
    /\ mode = None
    /\ running = FALSE
    /\ paused = FALSE
    /\ scores = [player1 |-> 0, player2 |-> 0]
    /\ paddles = <<>>
    /\ ball = Ball(0, 0, 0)
    /\ winner = ""
    /\ tick = NoTick
    /\ finished = ""
    /\ call = NoCall

NextOptions ==
    \/ \E e \in MenuEvents : main_quit(e)
    \/ \E e \in MenuEvents : main_options(e)
    \/ adjust_quit
    \/ adjust_escape
    \/ \E d \in {-1, 1} : adjust_select(d)
    \/ \E d \in {-1, 1} : adjust_value(d)

SpecOptions == InitOptions /\ [][NextOptions]_vars

\* single calls of Ball.update, Ball.reset and Paddle.update under the
\* default configuration: balls around the boundaries and the centre with
\* the paddles where init_game puts them, or a ball on the centre line with
\* both paddles at one of several positions and any AI difficulty
UnitBalls ==
    {[x |-> x, y |-> y, radius |-> DEFAULT_CONFIG.ball_radius,
      velocity_x |-> vx, velocity_y |-> vy] :
        x \in {5, 100, 395, 400, 500, 795},
        y \in {5, 12, 100, 300, 588, 595},
        vx \in {-BALL_SPEED, BALL_SPEED}, vy \in {-BALL_SPEED, BALL_SPEED}}

UnitPaddleXs == {0, 10, 300, 350, 690, 700}

\* the balls an AI paddle is given to track: one per x position
UnitTargets ==
    {b \in UnitBalls : /\ b.y = 300
                       /\ b.velocity_x = BALL_SPEED
                       /\ b.velocity_y = BALL_SPEED}

UnitConfigs ==
    {[DEFAULT_CONFIG EXCEPT !.ai_difficulty = d] :
        d \in MIN_OPTION..MAX_AI_DIFFICULTY}

InitUnit ==
    /\ state = "Unit"
    /\ options = NoOptions
    /\ selected = 0
    /\ changed = FALSE
    /\ event = ""
    /\ adjusted = 0
    /\ mode \in {"single", "multi"}
    /\ running = TRUE
    /\ paused = FALSE
    /\ \/ /\ CONFIG = DEFAULT_CONFIG
          /\ scores \in [player1 : 0..1, player2 : 0..1]
          /\ paddles = init_game(mode, CONFIG)
          /\ ball \in UnitBalls
       \/ /\ CONFIG \in UnitConfigs
          /\ scores = [player1 |-> 0, player2 |-> 0]
          /\ \E px \in UnitPaddleXs :
                paddles = [i \in 1..2 |->
                             [init_game(mode, CONFIG)[i] EXCEPT !.x = px]]
          /\ ball \in UnitTargets
    /\ winner = ""
    /\ tick = NoTick
    /\ finished = ""
    /\ call = NoCall

\* ball.update(paddles, scores)
unit_Ball_update(t1, t2) ==
    /\ state = "Unit"
    /\ state' = "Ball.update"
    /\ LET bu == Ball_update(ball, paddles, scores, CONFIG, t1, t2)
       IN  /\ ball' = bu.ball
           /\ scores' = bu.scores
           /\ tick' = [NoTick EXCEPT !.updated = TRUE, !.scorer = bu.scorer,
                                     !.resets = bu.resets, !.wall = bu.wall,
                                     !.hits = bu.hits]
    /\ UNCHANGED <<CONFIG, optionVars, event, adjusted, mode, running, paused,
                   paddles, winner, finished, call>>

\* ball.reset()
unit_Ball_reset(t1, t2) ==
    /\ state = "Unit"
    /\ state' = "Ball.reset"
    /\ ball' = Ball_reset(ball, CONFIG, t1, t2)
    /\ UNCHANGED <<CONFIG, optionVars, event, adjusted, mode, running, paused,
                   scores, paddles, winner, tick, finished, call>>

\* paddles[i].update(keys) and paddles[i].update(keys, ball)
unit_Paddle_update(i, keys, hasBall) ==
    /\ state = "Unit"
    /\ state' = "Paddle.update"
    /\ paddles' = [paddles EXCEPT
                     ![i] = Paddle_update(paddles[i], keys, hasBall, ball,
                                          CONFIG)]
    /\ call' = [paddle |-> i, keys |-> keys, ball |-> hasBall]
    /\ UNCHANGED <<CONFIG, optionVars, event, adjusted, mode, running, paused,
                   scores, ball, winner, tick, finished>>

NextUnit ==
    \/ \E t1 \in Parities, t2 \in Parities : unit_Ball_update(t1, t2)
    \/ \E t1 \in Parities, t2 \in Parities : unit_Ball_reset(t1, t2)
    \/ \E i \in 1..2, keys \in SUBSET MoveKeys, hasBall \in BOOLEAN :
          unit_Paddle_update(i, keys, hasBall)

SpecUnit == InitUnit /\ [][NextUnit]_vars

TypeOK ==
    /\ state \in {"MainMenu", "Options", "InSession", "Exited", "Unit",
                 "Ball.update", "Ball.reset", "Paddle.update"}
    /\ selected \in {0, 1}
    /\ running \in BOOLEAN
    /\ paused \in BOOLEAN

-----------------------------------------------------------------------------
(* Properties *)

InSession == state = "InSession"

\* a step of the session loop (the session exists before and after it)
SessionStep == state = "InSession" /\ state' = "InSession"

AtCentre(b) == 2 * b.x = CONFIG.game_width /\ 2 * b.y = CONFIG.game_height

\* the ball of the current state crosses the top (resp. bottom) boundary when
\* its position is integrated
CrossesTop == ball.y + ball.velocity_y - ball.radius < 0
CrossesBottom ==
    /\ ~CrossesTop
    /\ ball.y + ball.velocity_y + ball.radius > CONFIG.game_height

\* C1: in every state of a session every paddle, human or AI, lies inside the
\* arena: 0 <= x <= game_width - paddle width.
C1_PaddlesInArena ==
    InSession =>
        \A i \in 1..Len(paddles) :
            /\ 0 <= paddles[i].x
            /\ paddles[i].x <= CONFIG.game_width - paddles[i].width

\* C2: within a session the scores change only on a tick whose ball crosses
\* the top or bottom boundary; such a tick adds exactly 1 to exactly one
\* player and resets the ball exactly once; every other tick leaves both
\* scores as they were; no score ever decreases.
C2_ScoreSteps ==
    [][SessionStep =>
        LET d1 == scores'.player1 - scores.player1
            d2 == scores'.player2 - scores.player2
        IN  IF tick'.updated /\ (CrossesTop \/ CrossesBottom)
            THEN /\ d1 \in {0, 1} /\ d2 \in {0, 1} /\ d1 + d2 = 1
                 /\ tick'.resets = 1
                 /\ AtCentre(ball')
            ELSE /\ scores' = scores
                 /\ tick'.resets = 0]_vars

\* C2 witness: a second point has been scored in a session, by a tick that
\* reset the ball once
C2_Witness ==
    /\ InSession
    /\ scores.player1 + scores.player2 = 2
    /\ tick.scorer /= None
    /\ tick.resets = 1

\* C3: one Ball.update whose integrated position has y - radius < 0 adds 1 to
\* player 2 and leaves player 1; otherwise, if y + radius > game_height, it
\* adds 1 to player 1 and leaves player 2; in both cases the ball ends the
\* call at the arena centre (the ball at (395, 5) moving up ends at
\* (400, 300) with a point for player 2).
C3_BoundaryScoring ==
    [][(state = "Unit" /\ state' = "Ball.update") =>
        /\ CrossesTop =>
            /\ scores'.player2 = scores.player2 + 1
            /\ scores'.player1 = scores.player1
            /\ AtCentre(ball')
        /\ CrossesBottom =>
            /\ scores'.player1 = scores.player1 + 1
            /\ scores'.player2 = scores.player2
            /\ AtCentre(ball')
        /\ (ball.x = 395 /\ ball.y = 5 /\ ball.velocity_y = -4) =>
            /\ ball'.x = 400 /\ ball'.y = 300
            /\ scores'.player2 = scores.player2 + 1]_vars

\* C3 witness: a Ball.update that crossed the top boundary has scored for
\* player 2 and left the ball at (400, 300)
C3_Witness ==
    /\ state = "Ball.update"
    /\ tick.scorer = "player2"
    /\ scores.player2 = 2
    /\ ball.x = 400 /\ ball.y = 300

\* a player has reached the win threshold
Won ==
    \/ scores.player1 >= CONFIG.max_score
    \/ scores.player2 >= CONFIG.max_score

\* C4: a score that reaches max_score ends the session in the same loop
\* iteration: at the end of that iteration the running flag is cleared and
\* the winner screen names the player whose score is >= max_score, and the
\* only step left to the session is the return of run(): no further paddle
\* or ball update.
C4_WinEndsSession ==
    /\ [](InSession /\ Won =>
            /\ ~running
            /\ scores.player1 >= CONFIG.max_score => winner = "Player 1"
            /\ scores.player2 >= CONFIG.max_score => winner = "Player 2")
    /\ [][InSession /\ Won => state' = "MainMenu"]_vars

\* C4 witness: player 1 has reached max_score on an updating tick and the
\* winner screen names Player 1
C4_Witness ==
    /\ InSession
    /\ tick.updated /\ tick.scorer = "player1"
    /\ scores.player1 >= CONFIG.max_score
    /\ winner = "Player 1"
    /\ ~running

\* C5: a loop iteration in which the session is paused when update() is
\* reached leaves the ball (position and velocity), both paddles and both
\* scores unchanged; the events of the iteration are processed all the same:
\* a quit input received by a paused session clears the running flag.
C5_PausedFreezes ==
    /\ [][SessionStep /\ paused' =>
            /\ UNCHANGED <<ball, paddles, scores>>
            /\ ~tick'.updated]_vars
    /\ [][SessionStep /\ paused /\ tick'.quit => ~running']_vars

\* C5 witness: a quit input has been processed by an iteration that, being
\* paused, updated nothing, some ticks into a match
C5_Witness ==
    /\ InSession
    /\ paused /\ tick.quit /\ ~tick.updated /\ ~running
    /\ ball.y /= CONFIG.game_height \div 2

\* C6: a batch that holds a quit input (Q or window close) leaves the running
\* flag cleared whatever else the batch holds, and a session whose running
\* flag is cleared takes no step but the return of run(): the flag is never
\* set again.
C6_QuitTerminal ==
    /\ [][SessionStep /\ tick'.quit => ~running']_vars
    /\ [][InSession /\ ~running => state' = "MainMenu" /\ ~running']_vars

\* C6 witness: a session stopped by a quit input while paused
C6_Witness ==
    /\ InSession
    /\ tick.quit /\ paused /\ ~running
    /\ ~Won

\* C7: a quit input or window-close event ends the program from every state
\* of the Menu/Mode Flow: from MainMenu, from Options, and from a session
\* (which never returns to MainMenu once it has received a quit input).
C7_QuitEndsProgram ==
    /\ [][(state = "MainMenu" /\ state' /= "MainMenu"
            /\ event' \in {"QUIT", "K_4", "K_q"}) => state' = "Exited"]_vars
    /\ [][(state = "Options" /\ state' /= "Options" /\ event' = "QUIT")
            => state' = "Exited"]_vars
    /\ [][(InSession /\ tick.quit) => state' /= "MainMenu"]_vars

\* C8: a session starts only from MainMenu on a single/multiplayer selection,
\* and starts Running, not paused, with both scores 0, however the previous
\* session ended; a session that ends returns to MainMenu (with a win when a
\* player reached the threshold), so each selection runs exactly one session.
C8_OneSessionPerSelection ==
    /\ [][(~InSession /\ state' = "InSession") =>
            /\ state = "MainMenu"
            /\ event' \in {"K_1", "K_2"}
            /\ mode' = (IF event' = "K_1" THEN "single" ELSE "multi")
            /\ running' /\ ~paused'
            /\ scores'.player1 = 0 /\ scores'.player2 = 0]_vars
    /\ [][(InSession /\ state' /= "InSession") =>
            /\ state' = "MainMenu"
            /\ Won => finished' = "win"]_vars
    /\ [][SessionStep => mode' = mode]_vars

\* C8 witness: a session has ended by the win threshold and the flow is back
\* in MainMenu
C8_Witness ==
    /\ state = "MainMenu"
    /\ finished = "win"
    /\ scores.player1 + scores.player2 >= 1

\* C9: in the Options menu the pending AI difficulty stays in 1..10 and the
\* pending win threshold in 1..20, as do the configured values; a RIGHT at
\* the upper bound and a LEFT at the lower bound leave the value unchanged,
\* and every other LEFT/RIGHT changes the selected option alone, by exactly 1.
C9_OptionsInRange ==
    /\ [](/\ CONFIG.ai_difficulty \in 1..10
          /\ CONFIG.max_score \in 1..20
          /\ state = "Options" =>
                /\ options["AI Difficulty"] \in 1..10
                /\ options["Max Score"] \in 1..20)
    /\ [][(state = "Options" /\ state' = "Options") =>
            LET key   == IF selected = 0 THEN "AI Difficulty" ELSE "Max Score"
                other == IF selected = 0 THEN "Max Score" ELSE "AI Difficulty"
                upper == IF selected = 0 THEN 10 ELSE 20
            IN  /\ options'[other] = options[other]
                /\ event' = "K_RIGHT" =>
                      options'[key] = IF options[key] = upper
                                      THEN options[key] ELSE options[key] + 1
                /\ event' = "K_LEFT" =>
                      options'[key] = IF options[key] = 1
                                      THEN options[key] ELSE options[key] - 1
                /\ event' \notin {"K_LEFT", "K_RIGHT"} => options' = options
          ]_vars

\* C9 witness: a RIGHT on the win threshold has raised it to its upper bound
C9_Witness ==
    /\ state = "Options"
    /\ event = "K_RIGHT" /\ selected = 1 /\ changed
    /\ options["Max Score"] = 20
    /\ CONFIG.max_score = 19

\* C10: Ball.reset, from any ball position and velocity, puts the ball at
\* (game_width / 2, game_height / 2) = (400, 300) and sets each velocity
\* component to +4 or -4; each of the four sign pairs is a possible outcome.
C10_Reset ==
    /\ [][(state = "Unit" /\ state' = "Ball.reset") =>
            /\ ball'.x = 400 /\ ball'.y = 300
            /\ AtCentre(ball')
            /\ ball'.velocity_x \in {-4, 4}
            /\ ball'.velocity_y \in {-4, 4}]_vars
    /\ [](state = "Unit" =>
            \A sx \in {-4, 4}, sy \in {-4, 4} :
                \E t1 \in Parities, t2 \in Parities :
                    LET b == Ball_reset(ball, CONFIG, t1, t2)
                    IN  b.velocity_x = sx /\ b.velocity_y = sy)

\* C10 witness: a reset of a ball that was away from the centre has chosen
\* opposite signs for the two axes
C10_Witness ==
    /\ state = "Ball.reset"
    /\ ball.x = 400 /\ ball.y = 300
    /\ ball.velocity_x = 4 /\ ball.velocity_y = -4

\* a single Paddle.update call: the paddle before and after it, and the keys
\* of that paddle that were held
PaddleCall == state = "Unit" /\ state' = "Paddle.update"
LeftHeld(p, keys) == p.controls[1] \in keys
RightHeld(p, keys) == p.controls[2] \in keys

\* C11: Paddle.update moves a human paddle only for a held bound key: with
\* neither key held x is unchanged; with the right key alone and
\* x + width < game_width, x grows by exactly 10; with the left key alone and
\* x > 0, x shrinks by exactly 10; the result is the same whatever ball is
\* passed, and no other paddle moves.
C11_ManualPaddle ==
    [][PaddleCall =>
        LET i    == call'.paddle
            p    == paddles[i]
            q    == paddles'[i]
            keys == call'.keys
        IN  /\ \A j \in 1..Len(paddles) : j /= i => paddles'[j] = paddles[j]
            /\ ~p.ai =>
                /\ (~LeftHeld(p, keys) /\ ~RightHeld(p, keys)) => q.x = p.x
                /\ (~LeftHeld(p, keys) /\ RightHeld(p, keys)
                        /\ p.x + p.width < CONFIG.game_width)
                    => q.x = p.x + 10
                /\ (LeftHeld(p, keys) /\ ~RightHeld(p, keys) /\ p.x > 0)
                    => q.x = p.x - 10
                /\ \A b \in UnitTargets, hb \in BOOLEAN :
                      Paddle_update(p, keys, hb, b, CONFIG) = q]_vars

\* C11 witness: the bottom paddle of a single-player game, updated with the
\* right key alone, has moved from 350 to 360
C11_Witness ==
    /\ state = "Paddle.update"
    /\ mode = "single" /\ call.paddle = 1 /\ call.keys = {"K_RIGHT"}
    /\ paddles[1].x = 360

\* C12 as claimed: with both keys of a human paddle held, one Paddle.update
\* leaves x unchanged at every position, the arena edges included.
C12_BothKeysCancel ==
    [][PaddleCall =>
        LET p == paddles[call'.paddle]
            q == paddles'[call'.paddle]
        IN  (~p.ai /\ LeftHeld(p, call'.keys) /\ RightHeld(p, call'.keys))
                => q.x = p.x]_vars

\* C12 as amended: with both keys held the net change is 0 at every position
\* 0 < x <= game_width - width (the literal x = 350 and the right edge
\* included); at the left edge x = 0 the left move is refused and the right
\* move applies, so the paddle ends at x = 10.
C12_BothKeysCancelInside ==
    [][PaddleCall =>
        LET p == paddles[call'.paddle]
            q == paddles'[call'.paddle]
        IN  (~p.ai /\ LeftHeld(p, call'.keys) /\ RightHeld(p, call'.keys))
                => /\ (0 < p.x /\ p.x <= CONFIG.game_width - p.width)
                        => q.x = p.x
                   /\ p.x = 0 => q.x = 10]_vars

\* C12 witness: a paddle updated with both of its keys held stands at the
\* right edge
C12_Witness ==
    /\ state = "Paddle.update"
    /\ mode = "multi" /\ call.paddle = 1 /\ call.keys = {"K_a", "K_d"}
    /\ paddles[1].x = 700

\* C13: one Paddle.update of an AI paddle applies the proportional law
\* (target = ball.x - width/2, diff = target - x, move = speed * difficulty
\* / 10; +move if diff > move, -move if diff < -move, else x = target) and
\* then clamps the result to [0, game_width - width].
C13_AILawClamped ==
    [][PaddleCall =>
        LET p      == paddles[call'.paddle]
            q      == paddles'[call'.paddle]
            target == ball.x - p.width \div 2
            diff   == target - p.x
            move   == (10 * CONFIG.ai_difficulty) \div 10
            law    == IF diff > move THEN p.x + move
                      ELSE IF diff < -move THEN p.x - move
                      ELSE target
            hi     == CONFIG.game_width - p.width
        IN  (p.ai /\ call'.ball) =>
                q.x = IF law < 0 THEN 0 ELSE IF law > hi THEN hi ELSE law
    ]_vars

\* C14: in every state of a session both velocity components of the ball have
\* magnitude exactly 4: wall reflections, paddle reflections and resets change
\* only their signs, and neither component is ever 0.
C14_SpeedMagnitude ==
    InSession =>
        /\ ball.velocity_x \in {-4, 4}
        /\ ball.velocity_y \in {-4, 4}

\* C14 witness: a session tick that reflected the ball at a side wall, after
\* which both components are negative (the ball is served with both positive)
C14_Witness ==
    /\ InSession
    /\ tick.updated /\ tick.wall
    /\ ball.velocity_x = -4 /\ ball.velocity_y = -4

\* C15: scoring is resolved before the paddle loop and supersedes it: on a
\* session tick that scores a point no paddle reflects the ball, and at the
\* end of the tick the ball is what Ball.reset made of it: at the arena centre
\* with the vertical velocity the reset chose.
C15_ScoringSupersedes ==
    [][(SessionStep /\ tick'.updated /\ tick'.scorer /= None) =>
        /\ \A i \in 1..Len(tick'.hits) : ~tick'.hits[i]
        /\ AtCentre(ball')
        /\ \E t1, t2 \in Parities :
              ball' = Ball_reset(ball, CONFIG, t1, t2)]_vars

\* C15 witness: a tick that gave player 1 the point ended with the ball at
\* the centre, moving up, and no paddle hit
C15_Witness ==
    /\ InSession
    /\ tick.updated /\ tick.scorer = "player1"
    /\ tick.hits = <<FALSE, FALSE>>
    /\ AtCentre(ball) /\ ball.velocity_y = -4

\* the ball's bounding square [x-r, x+r] x [y-r, y+r] overlaps the rectangle
\* of paddle p
SquareOverlaps(b, p) ==
    /\ b.x + b.radius > p.x
    /\ b.x - b.radius < p.x + p.width
    /\ b.y + b.radius > p.y
    /\ b.y - b.radius < p.y + p.height

\* C16: at the end of every session tick without a score, each paddle has
\* negated vy in that tick if and only if the ball's bounding square overlaps
\* the paddle's rectangle, also when the ball's centre is horizontally
\* outside the paddle.
C16_BoundingSquareCollision ==
    (InSession /\ tick.updated /\ tick.scorer = None) =>
        \A i \in 1..Len(paddles) :
            tick.hits[i] <=> SquareOverlaps(ball, paddles[i])

\* C17: in every session tick, in both modes, at most one paddle negates vy.
C17_OneReflectionPerTick ==
    (InSession /\ tick.updated) =>
        Cardinality({i \in 1..Len(tick.hits) : tick.hits[i]}) <= 1

\* C17 witness: a tick of a two-player session in which the bottom paddle,
\* and only it, reflected the ball
C17_Witness ==
    /\ InSession /\ mode = "multi"
    /\ tick.updated /\ tick.hits = <<TRUE, FALSE>>
    /\ ball.velocity_y = -4

\* C18: CONFIG changes only when the Options screen is left with ESC, and
\* that step writes both pending values and nothing else; leaving Options by
\* a window-close drops the pending values and leaves CONFIG as it was; no
\* step taken in MainMenu or in a session changes CONFIG.
C18_ConfigWrittenOnConfirm ==
    [][/\ CONFIG' /= CONFIG =>
            (state = "Options" /\ state' = "MainMenu" /\ event' = "K_ESCAPE")
       /\ (state = "Options" /\ state' = "MainMenu" /\ event' = "K_ESCAPE") =>
            CONFIG' = [CONFIG EXCEPT
                          !.ai_difficulty = options["AI Difficulty"],
                          !.max_score = options["Max Score"]]
       /\ (state = "Options" /\ event' = "QUIT") =>
            (CONFIG' = CONFIG /\ options' = NoOptions)
       /\ state \in {"MainMenu", "InSession"} => CONFIG' = CONFIG]_vars

\* C18 witness: Options was left with ESC after the win threshold was raised,
\* and CONFIG holds the new threshold
C18_Witness ==
    /\ state = "MainMenu" /\ event = "K_ESCAPE"
    /\ CONFIG.max_score = StoredConfig.max_score + 1
    /\ CONFIG.ai_difficulty = StoredConfig.ai_difficulty

\* C19: in every state of a session both scores lie in 0..max_score, and when
\* the session has ended by the win condition exactly one player's score
\* equals max_score, the other's is strictly less, and the winner screen
\* names the player at max_score.
C19_ScoresBounded ==
    InSession =>
        /\ scores.player1 \in 0..CONFIG.max_score
        /\ scores.player2 \in 0..CONFIG.max_score
        /\ winner /= "" =>
            \/ /\ scores.player1 = CONFIG.max_score
               /\ scores.player2 < CONFIG.max_score
               /\ winner = "Player 1"
            \/ /\ scores.player2 = CONFIG.max_score
               /\ scores.player1 < CONFIG.max_score
               /\ winner = "Player 2"

\* C19 witness: a session with win threshold 2 won by player 2 at 2 : 1
C19_Witness ==
    /\ InSession /\ ~running
    /\ CONFIG.max_score = 2
    /\ scores = [player1 |-> 1, player2 |-> 2]
    /\ winner = "Player 2"

\* C20: a paddle reflection sends the ball away from that paddle's goal line:
\* at the end of a session tick in which the bottom paddle (the first of the
\* list) reflected the ball vy < 0, and in which the top paddle reflected it
\* vy > 0, so no paddle reflects the ball on two consecutive ticks.
C20_ReflectsAway ==
    (InSession /\ tick.updated) =>
        /\ tick.hits[1] => ball.velocity_y < 0
        /\ tick.hits[2] => ball.velocity_y > 0

\* the ball b, moved by one more integration step, is past a side wall
PastSideWall(b) ==
    \/ b.x + b.velocity_x - b.radius < 0
    \/ b.x + b.velocity_x + b.radius > CONFIG.game_width

\* C21: at the end of every session tick the ball's centre is inside the
\* arena (0 < x < game_width, 0 < y < game_height); the side-wall branch is
\* taken exactly when the integrated ball is past a side wall, it negates vx
\* (a reset in the same tick then chooses vx afresh), and after it the next
\* integration is not past a side wall, so the branch is never taken on two
\* consecutive ticks; a tick that integrates the ball past the top or bottom
\* boundary resets it to the centre.
C21_BallInsideArena ==
    [][(SessionStep /\ tick'.updated) =>
        /\ 0 < ball'.x /\ ball'.x < CONFIG.game_width
        /\ 0 < ball'.y /\ ball'.y < CONFIG.game_height
        /\ tick'.wall <=> PastSideWall(ball)
        /\ (tick'.wall /\ tick'.scorer = None) =>
              ball'.velocity_x = -ball.velocity_x
        /\ tick'.wall => ~PastSideWall(ball')
        /\ (CrossesTop \/ CrossesBottom) =>
              (tick'.resets = 1 /\ AtCentre(ball'))]_vars

\* C21 witness: a tick has integrated the ball past the right wall and
\* reflected it: its edge is beyond the wall, its centre inside, and it moves
\* left
C21_Witness ==
    /\ InSession
    /\ tick.updated /\ tick.wall /\ tick.scorer = None
    /\ ball.x + ball.radius > CONFIG.game_width
    /\ ball.x < CONFIG.game_width
    /\ ball.velocity_x = -4

=============================================================================
